---- MODULE Spec2Model ----
(***************************************************************************)
(* A model of src/src/Deconvolution.cpp (ImageStack's -deconvolution       *)
(* operation): the dispatcher Deconvolution::parse, the two solvers        *)
(* applyCho2009 and applyShan2008, and the boundary padding applyPadding.  *)
(*                                                                         *)
(* The model is of the build that links FFTW (the #else branches).         *)
(*                                                                         *)
(* float values are modelled as exact rationals (numerator and             *)
(* denominator of unbounded size, kept as sequences of limbs because the   *)
(* model checker's integers are 32 bits wide): the arithmetic of the       *)
(* source's expressions is reproduced operation by operation, without      *)
(* float rounding.                                                         *)
(***************************************************************************)
EXTENDS Integers, Sequences, FiniteSets, TLC

(***************************************************************************)
(* Exact arithmetic.  A natural number is the little-endian sequence of    *)
(* its limbs in base Base, without leading zero limbs (0 is <<>>).         *)
(***************************************************************************)
Base == 10 * 100

Max2(a, b) == IF a >= b THEN a ELSE b

Min2(a, b) == IF a <= b THEN a ELSE b

RECURSIVE NatNorm(_)
NatNorm(s) ==
  IF s = <<>> THEN s
  ELSE IF s[Len(s)] = 0 THEN NatNorm(SubSeq(s, 1, Len(s) - 1)) ELSE s

RECURSIVE NatOfInt(_)
NatOfInt(n) == IF n = 0 THEN <<>> ELSE <<n % Base>> \o NatOfInt(n \div Base)

Limb(a, i) == IF i <= Len(a) THEN a[i] ELSE 0

RECURSIVE NatCmpAt(_, _, _)
NatCmpAt(a, b, i) ==
  IF i = 0 THEN 0
  ELSE IF a[i] < b[i] THEN -1
  ELSE IF a[i] > b[i] THEN 1
  ELSE NatCmpAt(a, b, i - 1)

NatCmp(a, b) ==
  IF Len(a) < Len(b) THEN -1
  ELSE IF Len(a) > Len(b) THEN 1
  ELSE NatCmpAt(a, b, Len(a))

RECURSIVE NatAddC(_, _, _, _)
NatAddC(a, b, i, c) ==
  IF i > Len(a) /\ i > Len(b)
  THEN (IF c = 0 THEN <<>> ELSE <<c>>)
  ELSE LET s == Limb(a, i) + Limb(b, i) + c
       IN  <<s % Base>> \o NatAddC(a, b, i + 1, s \div Base)

NatAdd(a, b) == NatAddC(a, b, 1, 0)

RECURSIVE NatSubC(_, _, _, _)
NatSubC(a, b, i, c) ==
  IF i > Len(a) THEN <<>>
  ELSE LET s == a[i] - Limb(b, i) - c
       IN  IF s < 0 THEN <<s + Base>> \o NatSubC(a, b, i + 1, 1)
           ELSE <<s>> \o NatSubC(a, b, i + 1, 0)

\* a - b for a >= b
NatSub(a, b) == NatNorm(NatSubC(a, b, 1, 0))

RECURSIVE NatCol(_, _, _, _)
NatCol(a, b, k, i) ==
  IF i > Len(a) \/ i > k THEN 0
  ELSE a[i] * b[k + 1 - i] + NatCol(a, b, k, i + 1)

RECURSIVE NatMulC(_, _, _, _)
NatMulC(a, b, k, c) ==
  IF k > Len(a) + Len(b) - 1 THEN NatOfInt(c)
  ELSE LET s == NatCol(a, b, k, Max2(1, k + 1 - Len(b))) + c
       IN  <<s % Base>> \o NatMulC(a, b, k + 1, s \div Base)

NatMul(a, b) == IF a = <<>> \/ b = <<>> THEN <<>> ELSE NatMulC(a, b, 1, 0)

(***************************************************************************)
(* Integers: a sign s in {-1, 0, 1} and a magnitude m.                     *)
(***************************************************************************)
ZOfInt(n) ==
  IF n = 0 THEN [s |-> 0, m |-> <<>>]
  ELSE IF n > 0 THEN [s |-> 1, m |-> NatOfInt(n)]
  ELSE [s |-> -1, m |-> NatOfInt(-n)]

ZNeg(a) == [s |-> -a.s, m |-> a.m]

ZAdd(a, b) ==
  IF a.s = 0 THEN b
  ELSE IF b.s = 0 THEN a
  ELSE IF a.s = b.s THEN [s |-> a.s, m |-> NatAdd(a.m, b.m)]
  ELSE LET c == NatCmp(a.m, b.m)
       IN  IF c = 0 THEN [s |-> 0, m |-> <<>>]
           ELSE IF c > 0 THEN [s |-> a.s, m |-> NatSub(a.m, b.m)]
           ELSE [s |-> b.s, m |-> NatSub(b.m, a.m)]

ZMul(a, b) == [s |-> a.s * b.s, m |-> NatMul(a.m, b.m)]

\* the sign of a - b
ZCmp(a, b) == ZAdd(a, ZNeg(b)).s

(***************************************************************************)
(* Division of a natural number by a small d (0 < d < Base): quotient and  *)
(* remainder, from the most significant limb down.                         *)
(***************************************************************************)
RECURSIVE DivSmall(_, _, _)
DivSmall(a, d, i) ==
  IF i > Len(a) THEN [q |-> <<>>, r |-> 0]
  ELSE LET hi == DivSmall(a, d, i + 1)
           cur == hi.r * Base + a[i]
       IN  [q |-> <<cur \div d>> \o hi.q, r |-> cur % d]

NatDivSmall(a, d) == NatNorm(DivSmall(a, d, 1).q)

NatModSmall(a, d) == DivSmall(a, d, 1).r

(***************************************************************************)
(* Rationals: n / d with d a positive integer.  Common factors 2, 3, 5, 7  *)
(* and 17 are cancelled, which keeps the numbers short; other common       *)
(* factors may remain, so equality of values is QEq, never =.              *)
(***************************************************************************)
SmallPrimes == <<2, 3, 5, 7, 17>>

RECURSIVE QCancel(_, _, _)
QCancel(n, d, k) ==
  IF k > Len(SmallPrimes) THEN [n |-> n, d |-> d]
  ELSE IF NatModSmall(n.m, SmallPrimes[k]) = 0 /\ NatModSmall(d.m, SmallPrimes[k]) = 0
  THEN QCancel([s |-> n.s, m |-> NatDivSmall(n.m, SmallPrimes[k])],
               [s |-> d.s, m |-> NatDivSmall(d.m, SmallPrimes[k])], k)
  ELSE QCancel(n, d, k + 1)

QNorm(n, d) ==
  IF n.s = 0 THEN [n |-> n, d |-> ZOfInt(1)] ELSE QCancel(n, d, 1)

QFrac(p, q) == QNorm(ZOfInt(p), ZOfInt(q))

QInt(p) == [n |-> ZOfInt(p), d |-> ZOfInt(1)]

QNeg(a) == [n |-> ZNeg(a.n), d |-> a.d]

QAdd(a, b) ==
  IF a.d = b.d THEN QNorm(ZAdd(a.n, b.n), a.d)
  ELSE QNorm(ZAdd(ZMul(a.n, b.d), ZMul(b.n, a.d)), ZMul(a.d, b.d))

QSub(a, b) == QAdd(a, QNeg(b))

QMul(a, b) == QNorm(ZMul(a.n, b.n), ZMul(a.d, b.d))

\* a / b for b # 0
QDiv(a, b) ==
  QNorm(ZMul(ZMul(a.n, b.d), ZOfInt(b.n.s)), [s |-> 1, m |-> NatMul(a.d.m, b.n.m)])

QSign(a) == a.n.s

QCmp(a, b) == ZCmp(ZMul(a.n, b.d), ZMul(b.n, a.d))

QLess(a, b) == QCmp(a, b) < 0

QLeq(a, b) == QCmp(a, b) <= 0

QEq(a, b) == QCmp(a, b) = 0

QAbs(a) == IF a.n.s < 0 THEN QNeg(a) ELSE a


(***************************************************************************)
(* Bounds of the model.                                                    *)
(***************************************************************************)
\* largest width and height of a blurred image on the stack
MaxDim == 6

\* largest width and height of a kernel on the stack
MaxKernel == 3

(***************************************************************************)
(* State.                                                                  *)
(***************************************************************************)
VARIABLES
  \* Deconvolution::parse and the two solvers
  args,        \* the operation's arguments
  stack,       \* the image stack, top first: stack[1] is stack(0)
  stack0,      \* the stack when parse was entered
  pc,          \* position in parse / applyCho2009 / applyShan2008
  err,         \* kind of the fatal error, "" when none
  calls,       \* the solvers parse has called, in order
  K, B,        \* the solver's arguments (kernel, blurred image)
  work,        \* the numeric steps done so far, in order
  files,       \* the checkpoint files written so far, in order
  canvas,      \* shape of the padded image (B in applyCho2009, B_large in applyShan2008)
  lambda_1, lambda_2, gamma, iterations,
  L,           \* the latent image of applyShan2008: its shape, width 0 while empty
  crop,        \* the window of the solver's final Crop: offset and extent
  result       \* the image the solver returned

VARIABLES
  \* what the images of applyShan2008 hold, and the operands of its convolutions
  B_large,       \* what B_large holds: the signal, its domain, its channels
  FDeriv,        \* what FDeriv[0..5] hold: stencil, domain, conjugated or not
  convolutions,  \* the calls of Convolve::apply so far, in order, with their operands
  written        \* the round that last wrote L, Psi_x and Psi_y: 0 before any round

operandVars == <<B_large, FDeriv, convolutions, written>>

mainVars == <<args, stack, stack0, pc, err, calls, K, B, work, files, canvas,
              lambda_1, lambda_2, gamma, iterations, L, crop, result, operandVars>>

\* an image variable that holds no samples yet
Nothing == [of |-> "", domain |-> "none", conjugate |-> FALSE, channels |-> 0]

NoFilters == [i \in 0..5 |-> Nothing]

NeverWritten == [L |-> 0, Psi_x |-> 0, Psi_y |-> 0]

IdleOperands ==
  /\ B_large = Nothing
  /\ FDeriv = NoFilters
  /\ convolutions = <<>>
  /\ written = NeverWritten

Shape(w, h, t, c) == [width |-> w, height |-> h, frames |-> t, channels |-> c]

\* Image(): no samples
NoImage == Shape(0, 0, 0, 0)

ShapeOf(im) == Shape(im.width, im.height, im.frames, im.channels)

(***************************************************************************)
(* applyPadding: the margin sizes and the shape of the result.             *)
(***************************************************************************)
PadAlpha(w, h) ==
  LET a1 == IF w \div 3 < 1 THEN w \div 3 ELSE 1
  IN  IF h \div 3 < a1 THEN h \div 3 ELSE a1

PadMargin(n, alpha) == IF n \div 2 < alpha * 3 THEN alpha * 3 ELSE n \div 2

PadXPadding(w, h) == PadMargin(w, PadAlpha(w, h))

PadYPadding(w, h) == PadMargin(h, PadAlpha(w, h))

\* the final Crop of applyPadding: offset and extent
PadCropX(w, h) == PadXPadding(w, h) \div 2

PadCropY(w, h) == PadYPadding(w, h) \div 2

PaddedShape(im) ==
  Shape(im.width + PadXPadding(im.width, im.height),
        im.height + PadYPadding(im.width, im.height),
        im.frames, im.channels)

(***************************************************************************)
(* Collaborators outside Deconvolution.cpp, by their effect on shapes.     *)
(***************************************************************************)
\* Crop::apply(im, minX, minY, width, height) and its 7-argument form
CropShape(im, w, h, t) == Shape(w, h, t, im.channels)

\* Transpose::apply(im, 'c', 't')
TransposeCT(im) == Shape(im.width, im.height, im.channels, im.frames)

\* RealComplex::apply
RealComplexShape(im) == Shape(im.width, im.height, im.frames, 2 * im.channels)

\* ComplexReal::apply
ComplexRealShape(im) == Shape(im.width, im.height, im.frames, im.channels \div 2)

\* ColorConvert::apply(im, "rgb", "y")
LumaShape(im) == Shape(im.width, im.height, im.frames, 1)


(***************************************************************************)
(* Deconvolution::parse, applyCho2009 and applyShan2008: control flow,     *)
(* image shapes, checkpoint files and the continuation schedule.           *)
(***************************************************************************)
MAX_ITERATION == 2

\* a float variable that holds no value yet
QNone == [n |-> ZOfInt(0), d |-> ZOfInt(0)]

NoCrop == [x |-> 0, y |-> 0, width |-> 0, height |-> 0]

Image(name, w, h, t, c) ==
  [id |-> name, width |-> w, height |-> h, frames |-> t, channels |-> c]

Kernels ==
  {Image("kernel", w, h, t, c) : w \in 1..MaxKernel, h \in 1..MaxKernel,
                                 t \in 1..2, c \in {1, 3}}

Blurreds ==
  {Image("blurred", w, h, t, c) : w \in 1..MaxDim, h \in 1..MaxDim,
                                  t \in 1..2, c \in {1, 3}}

ArgLists ==
  {<<>>, <<"cho">>, <<"shan">>, <<"wiener">>, <<"cho", "shan">>, <<"shan", "cho">>}

InitMain ==
  /\ args \in ArgLists
  /\ \E k \in Kernels, b \in Blurreds :
       stack \in {<<k, b>>, <<k, b, Image("other", 2, 2, 1, 1)>>}
  /\ stack0 = stack
  /\ pc = "parse"
  /\ err = ""
  /\ calls = <<>>
  /\ K = NoImage
  /\ B = NoImage
  /\ work = <<>>
  /\ files = <<>>
  /\ canvas = NoImage
  /\ lambda_1 = QNone
  /\ lambda_2 = QNone
  /\ gamma = QNone
  /\ iterations = 0
  /\ L = NoImage
  /\ crop = NoCrop
  /\ result = NoImage
  /\ IdleOperands

\* assert(cond, msg) failing, or panic(msg)
Fatal(kind) ==
  /\ pc' = "fatal"
  /\ err' = kind

\* parse, line 30: Window kernel = stack(0)
parseKernelSwapped(st) == st[2]

parseKernel(st) == st[1]

\* parse, line 31: Window im = stack(1)
parseIm(st) == st[2]

\* parse, lines 29-37: the argument count, the two windows, the choice of solver
parse ==
  /\ pc = "parse"
  /\ IF Len(args) # 1
     THEN /\ Fatal("usage")
          /\ UNCHANGED <<calls, K, B>>
     ELSE IF args[1] = "cho"
     THEN /\ pc' = "cho:assert"
          /\ calls' = Append(calls, "applyCho2009")
          /\ K' = parseKernel(stack)
          /\ B' = parseIm(stack)
          /\ err' = err
     ELSE IF args[1] = "shan"
     THEN /\ pc' = "shan:assert"
          /\ calls' = Append(calls, "applyShan2008")
          /\ K' = parseKernel(stack)
          /\ B' = parseIm(stack)
          /\ err' = err
     ELSE /\ Fatal("usage")
          /\ UNCHANGED <<calls, K, B>>
  /\ UNCHANGED <<args, stack, stack0, work, files, canvas, lambda_1, lambda_2,
                 gamma, iterations, L, crop, result>>

\* parse, lines 33 and 35: push(...) of the image the solver returned
push ==
  /\ pc = "push"
  /\ stack' = <<result>> \o stack
  /\ pc' = "done"
  /\ UNCHANGED <<args, stack0, err, calls, K, B, work, files, canvas, lambda_1,
                 lambda_2, gamma, iterations, L, crop, result>>

\* the two assertions on the shapes of the kernel and of the blurred image
KernelOddWidthOnly(k) == k.width % 2 = 1

KernelOdd(k) == k.width % 2 = 1 /\ k.height % 2 = 1

SingleFramed(k, b) == k.channels = 1 /\ k.frames = 1 /\ b.frames = 1

\* the stencils of the derivative filters are written at (0..2, 0..2) of an
\* image of the canvas's size: outside its samples when the canvas has fewer
\* than 3 rows
StencilsInside(c) == c.height >= 3

\* applyCho2009, lines 456-460
ChoAssert ==
  /\ pc = "cho:assert"
  /\ IF KernelOdd(K) /\ SingleFramed(K, B)
     THEN pc' = "cho:pad" /\ err' = err
     ELSE Fatal("precondition")
  /\ UNCHANGED <<args, stack, stack0, calls, K, B, work, files, canvas, lambda_1,
                 lambda_2, gamma, iterations, L, crop, result>>

\* applyCho2009, line 473
ChoPad ==
  /\ pc = "cho:pad"
  /\ canvas' = PaddedShape(ShapeOf(B))
  /\ work' = Append(work, "applyPadding")
  /\ pc' = "cho:save"
  /\ UNCHANGED <<args, stack, stack0, err, calls, K, B, files, lambda_1,
                 lambda_2, gamma, iterations, L, crop, result>>

\* applyCho2009, line 474
ChoSave ==
  /\ pc = "cho:save"
  /\ files' = Append(files, "padded.tmp")
  /\ pc' = "cho:solve"
  /\ UNCHANGED <<args, stack, stack0, err, calls, K, B, work, canvas, lambda_1,
                 lambda_2, gamma, iterations, L, crop, result>>

\* applyCho2009, lines 476-545: the transforms, the filter bank, the division
ChoSolve ==
  /\ pc = "cho:solve"
  /\ work' = Append(work, "FFT")
  /\ \/ pc' = "cho:crop"
     \/ ~StencilsInside(canvas) /\ pc' = "crashed"
  /\ UNCHANGED <<args, stack, stack0, err, calls, K, B, files, canvas, lambda_1,
                 lambda_2, gamma, iterations, L, crop, result>>

\* FB of applyCho2009 (line 478), whose shape the transforms keep
ChoFB(c) == RealComplexShape(TransposeCT(c))

\* x_padding and y_padding of the solvers (lines 56-57 and 546-547)
SolverPaddingHalfCanvas(large, small) == large \div 2

SolverPadding(large, small) == (large - small) \div 2

\* applyCho2009, lines 546-549
ChoCrop ==
  /\ pc = "cho:crop"
  /\ crop' = [x |-> SolverPadding(canvas.width, B.width),
              y |-> SolverPadding(canvas.height, B.height),
              width |-> B.width, height |-> B.height]
  /\ result' = CropShape(TransposeCT(ComplexRealShape(ChoFB(canvas))),
                         B.width, B.height, B.frames)
  /\ pc' = "push"
  /\ UNCHANGED <<args, stack, stack0, err, calls, K, B, work, files, canvas,
                 lambda_1, lambda_2, gamma, iterations, L>>


(***************************************************************************)
(* applyShan2008.                                                          *)
(***************************************************************************)
\* lines 45-49
ShanAssert ==
  /\ pc = "shan:assert"
  /\ IF SingleFramed(K, B) /\ KernelOdd(K)
     THEN pc' = "shan:pad" /\ err' = err
     ELSE Fatal("precondition")
  /\ UNCHANGED <<args, stack, stack0, calls, K, B, work, files, canvas, lambda_1,
                 lambda_2, gamma, iterations, L, crop, result>>

\* line 53: the padded luma image, real samples in the spatial domain
Spatial(name) == [of |-> name, domain |-> "spatial", conjugate |-> FALSE, channels |-> 1]

\* RealComplex::apply (line 86): the same samples with a zero imaginary channel
RealComplex(im) == [im EXCEPT !.channels = 2]

\* FourierTransform (lines 87, 132): the image is replaced by its spectrum
FourierTransform(im) == [im EXCEPT !.domain = "frequency"]

\* ComplexConjugate::apply on a whole image (line 134)
Conjugated(im) == [im EXCEPT !.conjugate = ~im.conjugate]

StencilName == <<"original", "dx", "dxx", "dy", "dyy", "dxy">>

\* lines 104-130: the samples <<x, y, value>> set in the zero image FDeriv[i]
Stencil(i) ==
  CASE i = 0 -> {<<0, 0, 1>>}
    [] i = 1 -> {<<0, 0, -1>>, <<1, 0, 1>>}
    [] i = 2 -> {<<0, 0, 1>>, <<1, 0, -2>>, <<2, 0, 1>>}
    [] i = 3 -> {<<0, 0, -1>>, <<0, 1, 1>>}
    [] i = 4 -> {<<0, 0, 1>>, <<0, 1, -2>>, <<0, 2, 1>>}
    [] i = 5 -> {<<0, 0, 1>>, <<1, 0, -1>>, <<0, 1, -1>>, <<1, 1, 1>>}

\* lines 102-130: FDeriv[i] = Image(B_large.width, B_large.height, 1, 2) with
\* the stencil written into channel 0
StencilImage(i) ==
  [of |-> StencilName[i + 1], domain |-> "spatial", conjugate |-> FALSE, channels |-> 2]

\* lines 132-134: FDeriv[i] after FourierTransform and ComplexConjugate::apply
FilterBank == [i \in 0..5 |-> Conjugated(FourierTransform(StencilImage(i)))]

\* Crop::apply(im, minX, minY, width, height): a window onto what im holds
CropWindow(im, minX, minY, width, height) ==
  [source |-> im, x |-> minX, y |-> minY, width |-> width, height |-> height]

\* what L holds: nothing while it is the empty Image of line 146, and after
\* line 341 the real part of an inverse transform
LatentImage(l, round) ==
  [of |-> "L", domain |-> IF l = NoImage THEN "none" ELSE "spatial",
   conjugate |-> FALSE, channels |-> l.channels, round |-> round]

\* Convolve::apply(im, filter, mode) assigned to result in a round (round 0:
\* before the loop); "conv" names the unnamed result of an inner call
Convolve(result_, round, im, filter, mode) ==
  [result |-> result_, round |-> round, image |-> im, filter |-> filter,
   mode |-> mode]

\* lines 61-66: filter_x (w = K.width, h = 1) and filter_y (w = 1,
\* h = K.height), every sample 1 / (w * h); an even extent is cropped to the
\* next odd one, the added sample being 0
BoxFilter(w, h) ==
  [of |-> "box", domain |-> "spatial", conjugate |-> FALSE, channels |-> 1,
   width |-> IF w % 2 = 0 THEN w + 1 ELSE w,
   height |-> IF h % 2 = 0 THEN h + 1 ELSE h]

\* line 52
Bgray(b) == IF b.channels = 3 THEN LumaShape(ShapeOf(b)) ELSE ShapeOf(b)

\* lines 52-57: the luma image, the padded image, the enlarged kernel, and
\* x_padding and y_padding, the offset of the final crop
ShanPad ==
  /\ pc = "shan:pad"
  /\ canvas' = PaddedShape(Bgray(B))
  /\ crop' = [x |-> SolverPadding(canvas'.width, B.width),
              y |-> SolverPadding(canvas'.height, B.height),
              width |-> 0, height |-> 0]
  /\ work' = Append(work, "applyPadding")
  /\ B_large' = Spatial("B")
  /\ pc' = "shan:smoothness"
  /\ UNCHANGED <<args, stack, stack0, err, calls, K, B, files, lambda_1,
                 lambda_2, gamma, iterations, L, result, FDeriv, convolutions,
                 written>>

\* lines 60-79: the smoothness map, from four clamped convolutions (lines
\* 67-68 on Bgray, lines 72-73 on the square of Bgray)
ShanSmoothness ==
  /\ pc = "shan:smoothness"
  /\ convolutions' = convolutions \o
       <<Convolve("conv", 0, Spatial("Bgray"), BoxFilter(K.width, 1), "Clamp"),
         Convolve("tmp", 0, Spatial("conv"), BoxFilter(1, K.height), "Clamp"),
         Convolve("conv", 0, Spatial("smoothness_map"), BoxFilter(K.width, 1),
                  "Clamp"),
         Convolve("smoothness_map", 0, Spatial("conv"), BoxFilter(1, K.height),
                  "Clamp")>>
  /\ work' = Append(work, "smoothness_map")
  /\ pc' = "shan:fourier"
  /\ UNCHANGED <<args, stack, stack0, err, calls, K, B, files, canvas, lambda_1,
                 lambda_2, gamma, iterations, L, crop, result, B_large, FDeriv,
                 written>>

\* lines 82-142: the transforms of the kernel and of the padded image, the
\* initial lambda_1 and lambda_2 (line 94), the filter bank and the two sums
ShanFourier ==
  /\ pc = "shan:fourier"
  /\ work' = Append(work, "FFT")
  /\ lambda_1' = QFrac(1, 10)
  /\ lambda_2' = QInt(15)
  /\ B_large' = FourierTransform(RealComplex(B_large))
  /\ FDeriv' = FilterBank
  /\ \/ pc' = "shan:init"
     \/ ~StencilsInside(canvas) /\ pc' = "crashed"
  /\ UNCHANGED <<args, stack, stack0, err, calls, K, B, files, canvas, gamma,
                 iterations, L, crop, result, convolutions, written>>

\* lines 144-159: dIdx and dIdy, the empty L, Psi_x and Psi_y, gamma, the
\* constants of the prior, and the loop's int iterations = 1
ShanInit ==
  /\ pc = "shan:init"
  /\ convolutions' = convolutions \o
       <<Convolve("dIdx", 0, B_large, CropWindow(FDeriv[1], -1, 0, 3, 1), "Wrap"),
         Convolve("dIdy", 0, B_large, CropWindow(FDeriv[3], 0, -1, 1, 3), "Wrap")>>
  /\ L' = NoImage
  /\ written' = NeverWritten
  /\ gamma' = QInt(2)
  /\ iterations' = 1
  /\ pc' = "shan:loop"
  /\ UNCHANGED <<args, stack, stack0, err, calls, K, B, work, files, canvas,
                 lambda_1, lambda_2, crop, result, B_large, FDeriv>>

\* line 159: iterations <= MAX_ITERATION
ShanLoop ==
  /\ pc = "shan:loop"
  /\ pc' = IF iterations <= MAX_ITERATION THEN "shan:psi" ELSE "shan:crop"
  /\ UNCHANGED <<args, stack, stack0, err, calls, K, B, work, files, canvas,
                 lambda_1, lambda_2, gamma, iterations, L, crop, result>>

\* lines 172-243: dLdx and dLdy from L, then Psi_x at every pixel of the
\* canvas.  dLdx and dLdy have the shape of L: while L is empty, reading them
\* at a pixel reads outside their samples.
ShanPsi ==
  /\ pc = "shan:psi"
  /\ convolutions' = convolutions \o
       <<Convolve("dLdx", iterations, LatentImage(L, written.L),
                  CropWindow(FDeriv[1], -1, 0, 3, 1), "Wrap"),
         Convolve("dLdy", iterations, LatentImage(L, written.L),
                  CropWindow(FDeriv[3], 0, -1, 1, 3), "Wrap")>>
  /\ work' = Append(work, "Psi_x")
  /\ written' = [written EXCEPT !.Psi_x = iterations]
  /\ \/ pc' = "shan:psi_y"
     \/ L.width * L.height = 0 /\ pc' = "crashed"
  /\ UNCHANGED <<args, stack, stack0, err, calls, K, B, files, canvas, lambda_1,
                 lambda_2, gamma, iterations, L, crop, result, B_large, FDeriv>>

\* lines 244-311: Psi_y at every pixel of the canvas, from dLdy and dIdy
ShanPsiY ==
  /\ pc = "shan:psi_y"
  /\ work' = Append(work, "Psi_y")
  /\ written' = [written EXCEPT !.Psi_y = iterations]
  /\ \/ pc' = "shan:L"
     \/ L.width * L.height = 0 /\ pc' = "crashed"
  /\ UNCHANGED <<args, stack, stack0, err, calls, K, B, files, canvas, lambda_1,
                 lambda_2, gamma, iterations, L, crop, result, B_large, FDeriv,
                 convolutions>>

\* numerator of applyShan2008 (lines 96, 326): canvas-sized, one frame, complex
ShanNumerator(c) == Shape(c.width, c.height, 1, 2)

\* lines 313-341: the transforms of Psi_x and Psi_y, N and D, L = Re(IFFT(N / D))
ShanL ==
  /\ pc = "shan:L"
  /\ work' = Append(work, "L")
  /\ L' = ComplexRealShape(ShanNumerator(canvas))
  /\ written' = [written EXCEPT !.L = iterations]
  /\ pc' = "shan:save"
  /\ UNCHANGED <<args, stack, stack0, err, calls, K, B, files, canvas, lambda_1,
                 lambda_2, gamma, iterations, crop, result, B_large, FDeriv,
                 convolutions>>

Digits == <<"0", "1", "2", "3", "4", "5", "6", "7", "8", "9">>

\* sprintf(filename_c, "output%02d.tmp", n), for 0 <= n < 100
OutputName(n) == "output" \o Digits[(n \div 10) + 1] \o Digits[(n % 10) + 1] \o ".tmp"

\* lines 343-346
ShanSave ==
  /\ pc = "shan:save"
  /\ files' = Append(files, OutputName(iterations))
  /\ pc' = "shan:schedule"
  /\ UNCHANGED <<args, stack, stack0, err, calls, K, B, work, canvas, lambda_1,
                 lambda_2, gamma, iterations, L, crop, result>>

\* line 351: lambda_1 /= 1.2f; lambda_2 /= 1.5f; gamma *= 2.f
ScheduleLambda1Multiplied(l1) == QMul(l1, QFrac(12, 10))

ScheduleLambda1(l1) == QDiv(l1, QFrac(12, 10))

ScheduleLambda2(l2) == QDiv(l2, QFrac(15, 10))

ScheduleGamma(g) == QMul(g, QInt(2))

\* line 351, and the loop's iterations++ (line 159)
ShanSchedule ==
  /\ pc = "shan:schedule"
  /\ lambda_1' = ScheduleLambda1(lambda_1)
  /\ lambda_2' = ScheduleLambda2(lambda_2)
  /\ gamma' = ScheduleGamma(gamma)
  /\ iterations' = iterations + 1
  /\ pc' = "shan:loop"
  /\ UNCHANGED <<args, stack, stack0, err, calls, K, B, work, files, canvas, L,
                 crop, result>>

\* lines 354-355: L = Crop::apply(L, x_padding, y_padding, B.width, B.height);
\* return L
ShanCrop ==
  /\ pc = "shan:crop"
  /\ crop' = [crop EXCEPT !.width = B.width, !.height = B.height]
  /\ L' = CropShape(L, B.width, B.height, L.frames)
  /\ result' = L'
  /\ pc' = "push"
  /\ UNCHANGED <<args, stack, stack0, err, calls, K, B, work, files, canvas,
                 lambda_1, lambda_2, gamma, iterations>>

(***************************************************************************)
(* applyPadding at the level of samples.  An image is its shape and its    *)
(* samples in memory order: sample (x, y, t)[c] is at index                *)
(* ((t * height + y) * width + x) * channels + c.                          *)
(***************************************************************************)
VARIABLES
  pin,       \* the argument B of applyPadding: shape and samples
  ret,       \* the enlarged canvas ret: shape and samples, NoSamples before line 375
  ppc,       \* position in applyPadding
  pt,        \* the frame loop's t (line 377)
  py,        \* the y of the loop that starts at line 406
  preads,    \* the <<x, y>> of every sample of ret read so far
  pwrites,   \* the <<x, y>> of every sample of ret written so far (after line 375)
  pout       \* the image applyPadding returns

padVars == <<pin, ret, ppc, pt, py, preads, pwrites, pout>>

\* largest width and height of an image given to applyPadding
MaxPadDim == 4

Samples(shape, f) ==
  [width |-> shape.width, height |-> shape.height, frames |-> shape.frames,
   channels |-> shape.channels, data |-> f]

NoSamples == Samples(NoImage, <<>>)

Size(im) == im.width * im.height * im.frames * im.channels

\* float* Image::operator()(x, y, t), then [c]
Addr(im, x, y, t, c) == ((t * im.height + y) * im.width + x) * im.channels + c

Cof(im, a) == a % im.channels

Xof(im, a) == (a \div im.channels) % im.width

Yof(im, a) == (a \div (im.channels * im.width)) % im.height

Tof(im, a) == a \div (im.channels * im.width * im.height)

Allocated(im, a) == a >= 0 /\ a < Size(im)

\* a read of sample (x, y, t)[c]; g is what a read outside the allocation yields
Rd(im, x, y, t, c, g) ==
  LET a == Addr(im, x, y, t, c)
  IN  IF Allocated(im, a) THEN im.data[a + 1] ELSE g

\* Crop::apply(im, minX, minY, minT, width, height, frames): samples outside im are 0
Crop(im, minX, minY, minT, w, h, f) ==
  LET out == Shape(w, h, f, im.channels)
  IN  Samples(out,
        [i \in 1..(w * h * f * im.channels) |->
           LET a == i - 1
               x == Xof(out, a) + minX
               y == Yof(out, a) + minY
               t == Tof(out, a) + minT
           IN  IF /\ x >= 0 /\ x < im.width
                  /\ y >= 0 /\ y < im.height
                  /\ t >= 0 /\ t < im.frames
               THEN im.data[Addr(im, x, y, t, Cof(out, a)) + 1]
               ELSE QInt(0)])

\* the local variables of applyPadding that depend on the shape of B alone
alpha == PadAlpha(pin.width, pin.height)

x_padding == PadXPadding(pin.width, pin.height)

y_padding == PadYPadding(pin.width, pin.height)

\* the input images: every sample different, or every sample the same
RampImage(w, h, f, c) == Samples(Shape(w, h, f, c), [i \in 1..(w * h * f * c) |-> QInt(i)])

FlatImage(w, h, f, c) == Samples(Shape(w, h, f, c), [i \in 1..(w * h * f * c) |-> QInt(7)])

PadInputs ==
  UNION {{RampImage(w, h, f, c), FlatImage(w, h, f, c)} :
           w \in 1..MaxPadDim, h \in 1..MaxPadDim, f \in 1..2, c \in 1..2}

\* what a read outside the allocation of ret may yield
Garbage == {QInt(0), QInt(-1000)}

InitPad ==
  /\ pin \in PadInputs
  /\ ret = NoSamples
  /\ ppc = "begin"
  /\ pt = 0
  /\ py = 0
  /\ preads = {}
  /\ pwrites = {}
  /\ pout = NoSamples

\* lines 365-376: alpha, x_padding, y_padding, prev and the enlarged canvas
PadBegin ==
  /\ ppc = "begin"
  /\ ret' = Crop(pin, -x_padding, -y_padding, 0,
                 pin.width + x_padding * 2, pin.height + y_padding * 2, pin.frames)
  /\ pt' = 0
  /\ ppc' = "frame"
  /\ UNCHANGED <<pin, py, preads, pwrites, pout>>

\* line 377: t < B.frames
PadFrame ==
  /\ ppc = "frame"
  /\ ppc' = IF pt < pin.frames THEN "top" ELSE "crop"
  /\ UNCHANGED <<pin, ret, pt, py, preads, pwrites, pout>>

\* memcpy(ret(xd, yd, t), ret(xs, ys, t), sizeof(float) * n): the samples after
\* the copy, for source and destination that do not overlap
Memcpy(im, t, xd, yd, xs, ys, n, g) ==
  LET dst == Addr(im, xd, yd, t, 0)
      src == Addr(im, xs, ys, t, 0)
  IN  [im EXCEPT !.data =
         [i \in 1..Size(im) |->
            IF i - 1 >= dst /\ i - 1 < dst + n
            THEN (IF Allocated(im, src + (i - 1 - dst))
                  THEN im.data[src + (i - 1 - dst) + 1] ELSE g)
            ELSE im.data[i]]]

\* the <<x, y>> of the samples a memcpy of n floats at ret(x, y, t) touches
Span(x, y, n, channels) == {<<x + i, y>> : i \in 0..((n \div channels) - 1)}

\* lines 379-385: the copies of the loop body for one y
TopDstRowInside(y) == y_padding + y

TopDstRow(y) == y_padding - alpha + y

TopCopy(im, t, y, g) ==
  LET n == pin.channels * pin.width
      m1 == Memcpy(im, t, x_padding, y, x_padding, y - alpha + pin.height + y_padding, n, g)
  IN  Memcpy(m1, t, x_padding, TopDstRow(y), x_padding, y + y_padding, n, g)

RECURSIVE TopLoop(_, _, _, _)
TopLoop(im, t, y, g) ==
  IF y < alpha THEN TopLoop(TopCopy(im, t, y, g), t, y + 1, g) ELSE im

TopReads ==
  UNION {Span(x_padding, y - alpha + pin.height + y_padding, pin.channels * pin.width, pin.channels)
         \cup Span(x_padding, y + y_padding, pin.channels * pin.width, pin.channels) :
         y \in 0..(alpha - 1)}

TopWrites ==
  UNION {Span(x_padding, y, pin.channels * pin.width, pin.channels)
         \cup Span(x_padding, TopDstRow(y), pin.channels * pin.width, pin.channels) :
         y \in 0..(alpha - 1)}

\* line 388 and line 421: 1.f / (padding - alpha - (i - 1))
Weight(padding, i) == QFrac(1, padding - alpha - (i - 1))

\* lines 395 and 430: 0.1f + 0.2f * (1.f - fabs(padding * 0.5f - i) / (padding * 0.5f))
Wing(padding, i) ==
  LET half == QMul(QInt(padding), QFrac(5, 10))
  IN  QAdd(QFrac(1, 10),
           QMul(QFrac(2, 10),
                QSub(QInt(1), QDiv(QAbs(QSub(half, QInt(i))), half))))

\* lines 396 and 431: 1.f - wing * 2.f
Center(wing) == QSub(QInt(1), QMul(wing, QInt(2)))

\* a * (1.f - weight) + b * weight
Blend(a, b, weight) == QAdd(QMul(a, QSub(QInt(1), weight)), QMul(b, weight))

\* prev * wing + next * wing + tmp * center
Blur(prev, next, tmp, wing) ==
  LET center == Center(wing)
  IN  QAdd(QAdd(QMul(prev, wing), QMul(next, wing)), QMul(tmp, center))

\* lines 388-391: row y of the top margin, between the columns of the image
InterpRow(im, t, y, g) ==
  LET weight == Weight(y_padding, y) IN
  [im EXCEPT !.data =
     [i \in 1..Size(im) |->
        LET a == i - 1
            x == Xof(im, a)
            c == Cof(im, a)
        IN  IF /\ Tof(im, a) = t /\ Yof(im, a) = y
               /\ x >= x_padding /\ x < x_padding + pin.width
            THEN Blend(Rd(im, x, y - 1, t, c, g),
                       Rd(im, x, y_padding - alpha, t, c, g),
                       weight)
            ELSE im.data[i]]]

\* lines 393-403: the blur of row y; prev holds the sample to the left as it
\* was before the loop wrote it (the sample itself at the first x)
BlurRow(im, t, y, g) ==
  LET wing == Wing(y_padding, y) IN
  [im EXCEPT !.data =
     [i \in 1..Size(im) |->
        LET a == i - 1
            x == Xof(im, a)
            c == Cof(im, a)
        IN  IF /\ Tof(im, a) = t /\ Yof(im, a) = y
               /\ x >= x_padding /\ x < x_padding + pin.width - 1
            THEN Blur(Rd(im, IF x = x_padding THEN x ELSE x - 1, y, t, c, g),
                      Rd(im, x + 1, y, t, c, g),
                      im.data[i],
                      wing)
            ELSE im.data[i]]]

\* lines 386-404
RECURSIVE RowsLoop(_, _, _, _)
RowsLoop(im, t, y, g) ==
  IF y < y_padding - alpha
  THEN RowsLoop(BlurRow(InterpRow(im, t, y, g), t, y, g), t, y + 1, g)
  ELSE im

RowsY == alpha..(y_padding - alpha - 1)

RowsReads ==
  {<<x, y - 1>> : x \in x_padding..(x_padding + pin.width - 1), y \in RowsY}
  \cup {<<x, y_padding - alpha>> : x \in x_padding..(x_padding + pin.width - 1), y \in RowsY}
  \cup {<<x_padding, y>> : y \in RowsY}
  \cup {<<x, y>> : x \in x_padding..(x_padding + pin.width - 1), y \in RowsY}

RowsWrites ==
  {<<x, y>> : x \in x_padding..(x_padding + pin.width - 1), y \in RowsY}

\* whether <<x, y>> is outside the allocation of ret when read in frame t
Outside(t, xy) == ~Allocated(ret, Addr(ret, xy[1], xy[2], t, 0))

\* lines 379-404 for frame pt: the top margin
PadTop ==
  /\ ppc = "top"
  /\ preads' = preads \cup TopReads \cup RowsReads
  /\ pwrites' = pwrites \cup TopWrites \cup RowsWrites
  /\ \/ \E g \in Garbage :
          /\ ret' = RowsLoop(TopLoop(ret, pt, 0, g), pt, alpha, g)
          /\ ppc' = "bottom"
     \/ /\ \E xy \in TopReads \cup RowsReads : Outside(pt, xy)
        /\ ppc' = "crashed"
        /\ ret' = ret
  /\ py' = 0
  /\ UNCHANGED <<pin, pt, pout>>

\* all rows of the canvas (lines 410, 422, 441)
CanvasRows == 0..(pin.height + y_padding * 2 - 1)

\* lines 410-418: the two copies at the left margin, in every row
LeftCopy(im, t, g) ==
  [im EXCEPT !.data =
     [i \in 1..Size(im) |->
        LET a == i - 1
            x == Xof(im, a)
            y == Yof(im, a)
            c == Cof(im, a)
        IN  IF Tof(im, a) = t /\ x >= 0 /\ x < alpha
            THEN Rd(im, pin.width + x_padding - alpha + x, y, t, c, g)
            ELSE IF Tof(im, a) = t /\ x >= x_padding - alpha /\ x < x_padding
            THEN Rd(im, x + alpha, y, t, c, g)
            ELSE im.data[i]]]

\* lines 421-426: column x of the left margin, in every row
InterpCol(im, t, x, g) ==
  LET weight == Weight(x_padding, x) IN
  [im EXCEPT !.data =
     [i \in 1..Size(im) |->
        LET a == i - 1
            y == Yof(im, a)
            c == Cof(im, a)
        IN  IF Tof(im, a) = t /\ Xof(im, a) = x
            THEN Blend(Rd(im, x - 1, y, t, c, g),
                       Rd(im, x_padding - alpha, y, t, c, g),
                       weight)
            ELSE im.data[i]]]

\* lines 428-438: the blur of column x; prev holds the sample above as it was
\* before the loop wrote it (the sample itself at y = 0)
BlurCol(im, t, x, g) ==
  LET wing == Wing(x_padding, x) IN
  [im EXCEPT !.data =
     [i \in 1..Size(im) |->
        LET a == i - 1
            y == Yof(im, a)
            c == Cof(im, a)
        IN  IF /\ Tof(im, a) = t /\ Xof(im, a) = x
               /\ y < pin.height + y_padding * 2 - 1
            THEN Blur(Rd(im, x, IF y = 0 THEN y ELSE y - 1, t, c, g),
                      Rd(im, x, y + 1, t, c, g),
                      im.data[i],
                      wing)
            ELSE im.data[i]]]

\* lines 419-439
RECURSIVE ColsLoop(_, _, _, _)
ColsLoop(im, t, x, g) ==
  IF x < x_padding - alpha
  THEN ColsLoop(BlurCol(InterpCol(im, t, x, g), t, x, g), t, x + 1, g)
  ELSE im

\* lines 441-443: the right margin of every row, copied from its left margin
RightCopy(im, t, g) ==
  [im EXCEPT !.data =
     [i \in 1..Size(im) |->
        LET a == i - 1
            x == Xof(im, a)
        IN  IF Tof(im, a) = t /\ x >= pin.width + x_padding
            THEN Rd(im, x - (pin.width + x_padding), Yof(im, a), t, Cof(im, a), g)
            ELSE im.data[i]]]

\* lines 407-443: the body of the loop that starts at line 406, for one y.  The
\* brace opened at line 406 closes at line 444, so the left margin, its
\* interpolation and the right margin are part of the body.
BottomIter(im, t, y, g) ==
  LET m1 == Memcpy(im, t, x_padding, y + pin.height + y_padding, x_padding, y,
                   pin.channels * pin.width, g)
      m2 == LeftCopy(m1, t, g)
      m3 == ColsLoop(m2, t, alpha, g)
  IN  RightCopy(m3, t, g)

ColsX == alpha..(x_padding - alpha - 1)

BottomReads(y) ==
  Span(x_padding, y, pin.channels * pin.width, pin.channels)
  \cup {<<pin.width + x_padding - alpha + x, yy>> : x \in 0..(alpha - 1), yy \in CanvasRows}
  \cup {<<x_padding + x, yy>> : x \in 0..(alpha - 1), yy \in CanvasRows}
  \cup {<<x - 1, yy>> : x \in ColsX, yy \in CanvasRows}
  \cup {<<x_padding - alpha, yy>> : x \in ColsX, yy \in CanvasRows}
  \cup {<<x, yy>> : x \in ColsX, yy \in CanvasRows}
  \cup UNION {Span(0, yy, pin.channels * x_padding, pin.channels) : yy \in CanvasRows}

BottomWrites(y) ==
  Span(x_padding, y + pin.height + y_padding, pin.channels * pin.width, pin.channels)
  \cup {<<x, yy>> : x \in 0..(alpha - 1), yy \in CanvasRows}
  \cup {<<x_padding - alpha + x, yy>> : x \in 0..(alpha - 1), yy \in CanvasRows}
  \cup {<<x, yy>> : x \in ColsX, yy \in CanvasRows}
  \cup UNION {Span(pin.width + x_padding, yy, pin.channels * x_padding, pin.channels) :
              yy \in CanvasRows}

\* lines 406-444 for frame pt: the test y < y_padding and one pass of the
\* body, or the end of the loop and the frame loop's t++
PadBottom ==
  /\ ppc = "bottom"
  /\ IF py < y_padding
     THEN /\ preads' = preads \cup BottomReads(py)
          /\ pwrites' = pwrites \cup BottomWrites(py)
          /\ py' = py + 1
          /\ pt' = pt
          /\ \/ \E g \in Garbage :
                  /\ ret' = BottomIter(ret, pt, py, g)
                  /\ ppc' = "bottom"
             \/ /\ \E xy \in BottomReads(py) : Outside(pt, xy)
                /\ ppc' = "crashed"
                /\ ret' = ret
     ELSE /\ pt' = pt + 1
          /\ ppc' = "frame"
          /\ UNCHANGED <<ret, py, preads, pwrites>>
  /\ UNCHANGED <<pin, pout>>

\* lines 446-448: the final crop
PadCrop ==
  /\ ppc = "crop"
  /\ pout' = Crop(ret, PadCropX(pin.width, pin.height), PadCropY(pin.width, pin.height), 0,
                  pin.width + x_padding, pin.height + y_padding, pin.frames)
  /\ ppc' = "done"
  /\ UNCHANGED <<pin, ret, pt, py, preads, pwrites>>

IdlePad ==
  /\ pin = NoSamples
  /\ ret = NoSamples
  /\ ppc = "idle"
  /\ pt = 0
  /\ py = 0
  /\ preads = {}
  /\ pwrites = {}
  /\ pout = NoSamples

\* the variables of parse and the solvers other than the round's
IdleSolver ==
  /\ args = <<>>
  /\ stack = <<>>
  /\ stack0 = <<>>
  /\ pc = "idle"
  /\ err = ""
  /\ calls = <<>>
  /\ K = NoImage
  /\ B = NoImage
  /\ work = <<>>
  /\ files = <<>>
  /\ canvas = NoImage
  /\ L = NoImage
  /\ IdleOperands
  /\ crop = NoCrop
  /\ result = NoImage

IdleMain ==
  /\ IdleSolver
  /\ lambda_1 = QNone
  /\ lambda_2 = QNone
  /\ gamma = QNone
  /\ iterations = 0

(***************************************************************************)
(* applyShan2008, the Psi update of one round (lines 172-311), on a canvas *)
(* of one row.  The samples are exact rationals.                           *)
(***************************************************************************)
VARIABLES
  spc,             \* position in the two pixel loops
  pixel,           \* the x of the pixel loops (lines 177, 245)
  dLdx, dLdy,      \* the derivatives of L (lines 174-175), one sample per pixel
  dIdx, dIdy,      \* the derivatives of the blurred image (lines 144-145)
  smoothness_map,  \* the thresholded smoothness map (line 77): 0 or 1
  tmp, tmpscore,   \* the candidate under test and its score (line 172)
  fscore,          \* the score of the candidate accepted last
  fscore_valid,    \* whether a candidate was accepted at this pixel
  ans_x, ans_y,    \* the candidate accepted last, per field
  Psi_x, Psi_y     \* the two fields, channel 0 (lines 147-148)

psiVars == <<spc, pixel, dLdx, dLdy, dIdx, dIdy, smoothness_map, tmp, tmpscore,
             fscore, fscore_valid, ans_x, ans_y, Psi_x, Psi_y>>

MaxPixels == 2

\* lines 153-157: the constants of the prior, after the adjustment
k == QMul(QFrac(27, 10), QInt(255))

a == QMul(QMul(QFrac(61, 100000), QInt(255)), QInt(255))

b == QInt(5)

lt == QDiv(QFrac(185263, 100000), QInt(255))

\* gamma * (t - dL) * (t - dL) + lambda_2 * (t - dI) * (t - dI) * m
\* (lines 186-187 and their copies)
Fit(t, dL, dI, m) ==
  QAdd(QMul(QMul(gamma, QSub(t, dL)), QSub(t, dL)),
       QMul(QMul(QMul(lambda_2, QSub(t, dI)), QSub(t, dI)), m))

\* gamma * dL + lambda_2 * dI * m (line 184 and its copies)
Pull(dL, dI, m) == QAdd(QMul(gamma, dL), QMul(QMul(lambda_2, dI), m))

\* the constant part of the denominators (lines 185, 198, 211)
Stiffness == QAdd(gamma, lambda_2)

\* line 184: the stationary point of the quadratic region
QuadraticTmp(dL, dI, m) ==
  QDiv(Pull(dL, dI, m), QSub(Stiffness, QMul(a, lambda_1)))

\* lines 186-188
QuadraticScore(t, dL, dI, m) ==
  QAdd(Fit(t, dL, dI, m), QMul(lambda_1, QNeg(QAdd(QMul(QMul(a, t), t), b))))

\* line 189: fabs(tmp) > lt
QuadraticFeasible(t) == QLess(lt, QAbs(t))

\* line 197: the stationary point of the positive linear region
PositiveTmp(dL, dI, m) ==
  QDiv(QAdd(Pull(dL, dI, m), QMul(lambda_1, k)), Stiffness)

\* lines 199-201
PositiveScore(t, dL, dI, m) ==
  QAdd(Fit(t, dL, dI, m), QMul(lambda_1, QMul(QNeg(k), t)))

\* lines 202 and 215: tmp >= 0 && tmp <= lt
LinearFeasible(t) == QLeq(QInt(0), t) /\ QLeq(t, lt)

\* line 210: the stationary point of the negative linear region
NegativeTmp(dL, dI, m) ==
  QDiv(QSub(Pull(dL, dI, m), QMul(lambda_1, k)), Stiffness)

\* lines 212-214
NegativeScore(t, dL, dI, m) ==
  QAdd(Fit(t, dL, dI, m), QMul(lambda_1, QMul(k, t)))

\* lines 220-221
ZeroScore(t, dL, dI, m) == Fit(t, dL, dI, m)

\* lines 227-229
LtScore(t, dL, dI, m) ==
  QSub(Fit(t, dL, dI, m), QMul(lambda_1, QMul(QNeg(k), lt)))

\* lines 235-237
MinusLtScore(t, dL, dI, m) ==
  QSub(Fit(t, dL, dI, m), QMul(lambda_1, QMul(k, lt)))

\* the six candidates in the order of the scan: value, score, test
CandTmp(c, dL, dI, m) ==
  CASE c = 1 -> QuadraticTmp(dL, dI, m)
    [] c = 2 -> PositiveTmp(dL, dI, m)
    [] c = 3 -> NegativeTmp(dL, dI, m)
    [] c = 4 -> QInt(0)
    [] c = 5 -> lt
    [] c = 6 -> QNeg(lt)

CandScore(c, t, dL, dI, m) ==
  CASE c = 1 -> QuadraticScore(t, dL, dI, m)
    [] c = 2 -> PositiveScore(t, dL, dI, m)
    [] c = 3 -> NegativeScore(t, dL, dI, m)
    [] c = 4 -> ZeroScore(t, dL, dI, m)
    [] c = 5 -> LtScore(t, dL, dI, m)
    [] c = 6 -> MinusLtScore(t, dL, dI, m)

CandFeasible(c, t) ==
  CASE c = 1 -> QuadraticFeasible(t)
    [] c \in {2, 3} -> LinearFeasible(t)
    [] c \in {4, 5, 6} -> TRUE

BetterFlipped(f, s) == QLess(f, s)

\* fscore > tmpscore
Better(f, s) == QLess(s, f)

\* !fscore_valid || fscore > tmpscore, after the test on the value
Accepts(feasible, s) == feasible /\ (~fscore_valid \/ Better(fscore, s))

\* lambda_1, lambda_2 and gamma at the start of round n (lines 94, 149, 351)
RECURSIVE Lambda1In(_)
Lambda1In(n) ==
  IF n = 1 THEN QFrac(1, 10) ELSE ScheduleLambda1(Lambda1In(n - 1))

RECURSIVE Lambda2In(_)
Lambda2In(n) ==
  IF n = 1 THEN QInt(15) ELSE ScheduleLambda2(Lambda2In(n - 1))

RECURSIVE GammaIn(_)
GammaIn(n) == IF n = 1 THEN QInt(2) ELSE ScheduleGamma(GammaIn(n - 1))

\* one pixel of the canvas: the five samples the two scans read at it
PsiPixel(lx, ix, ly, iy, m) ==
  [dLdx |-> lx, dIdx |-> ix, dLdy |-> ly, dIdy |-> iy, smoothness_map |-> m]

PsiPixels ==
  { PsiPixel(QInt(0), QInt(0), QInt(0), QInt(0), QInt(0)),
    PsiPixel(QInt(0), QInt(0), QFrac(1, 1000), QFrac(1, 100), QInt(1)),
    PsiPixel(QFrac(1, 2), QFrac(1, 4), QFrac(-1, 2), QInt(0), QInt(1)),
    PsiPixel(QFrac(-172, 5), QInt(0), QFrac(689, 20), QInt(0), QInt(0)),
    PsiPixel(QFrac(-2293, 160), QInt(0), QFrac(2297, 160), QInt(0), QInt(0)) }

PsiRows == UNION { [1..n -> PsiPixels] : n \in 1..MaxPixels }

\* the values a float that was never assigned may hold
Unassigned == {QInt(0), QInt(-1000)}

\* the state at line 176 of round iterations
InitPsi ==
  /\ iterations \in 1..MAX_ITERATION
  /\ lambda_1 = Lambda1In(iterations)
  /\ lambda_2 = Lambda2In(iterations)
  /\ gamma = GammaIn(iterations)
  /\ \E row \in PsiRows :
       /\ dLdx = [i \in DOMAIN row |-> row[i].dLdx]
       /\ dLdy = [i \in DOMAIN row |-> row[i].dLdy]
       /\ dIdx = [i \in DOMAIN row |-> row[i].dIdx]
       /\ dIdy = [i \in DOMAIN row |-> row[i].dIdy]
       /\ smoothness_map = [i \in DOMAIN row |-> row[i].smoothness_map]
       /\ Psi_x = [i \in DOMAIN row |-> QInt(0)]
       /\ Psi_y = [i \in DOMAIN row |-> QInt(0)]
  /\ \E g \in Unassigned :
       /\ tmp = g
       /\ tmpscore = g
       /\ fscore = g
       /\ ans_x = g
       /\ ans_y = g
  /\ fscore_valid \in BOOLEAN
  /\ pixel = 0
  /\ spc = "x:pixel"

\* one candidate of the Psi_x scan, with value t, score s and test feasible:
\* tmp, tmpscore and the conditional fscore = tmpscore; ans_x = tmp;
\* fscore_valid = true
TryX(t, s, feasible, nxt) ==
  /\ tmp' = t
  /\ tmpscore' = s
  /\ IF Accepts(feasible, tmpscore')
       THEN fscore' = tmpscore' /\ ans_x' = tmp' /\ fscore_valid' = TRUE
       ELSE UNCHANGED <<fscore, ans_x, fscore_valid>>
  /\ spc' = nxt
  /\ UNCHANGED <<pixel, dLdx, dLdy, dIdx, dIdy, smoothness_map, ans_y,
                 Psi_x, Psi_y>>

\* the samples the Psi_x scan reads at the current pixel
dLdxAt == dLdx[pixel + 1]

dIdxAt == dIdx[pixel + 1]

maskAt == smoothness_map[pixel + 1]

\* lines 176-178: the loop test and fscore_valid = false
PsiXPixel ==
  /\ spc = "x:pixel"
  /\ IF pixel < Len(smoothness_map)
       THEN fscore_valid' = FALSE /\ spc' = "x:quadratic" /\ pixel' = pixel
       ELSE fscore_valid' = fscore_valid /\ spc' = "y:pixel" /\ pixel' = 0
  /\ UNCHANGED <<dLdx, dLdy, dIdx, dIdy, smoothness_map, tmp, tmpscore, fscore,
                 ans_x, ans_y, Psi_x, Psi_y>>

\* lines 179-191
PsiXQuadratic ==
  /\ spc = "x:quadratic"
  /\ TryX(QuadraticTmp(dLdxAt, dIdxAt, maskAt),
          QuadraticScore(QuadraticTmp(dLdxAt, dIdxAt, maskAt), dLdxAt, dIdxAt, maskAt),
          QuadraticFeasible(QuadraticTmp(dLdxAt, dIdxAt, maskAt)), "x:positive")

\* lines 192-204
PsiXPositive ==
  /\ spc = "x:positive"
  /\ TryX(PositiveTmp(dLdxAt, dIdxAt, maskAt),
          PositiveScore(PositiveTmp(dLdxAt, dIdxAt, maskAt), dLdxAt, dIdxAt, maskAt),
          LinearFeasible(PositiveTmp(dLdxAt, dIdxAt, maskAt)), "x:negative")

\* lines 205-217
PsiXNegative ==
  /\ spc = "x:negative"
  /\ TryX(NegativeTmp(dLdxAt, dIdxAt, maskAt),
          NegativeScore(NegativeTmp(dLdxAt, dIdxAt, maskAt), dLdxAt, dIdxAt, maskAt),
          LinearFeasible(NegativeTmp(dLdxAt, dIdxAt, maskAt)), "x:zero")

\* lines 218-224
PsiXZero ==
  /\ spc = "x:zero"
  /\ TryX(QInt(0),
          ZeroScore(QInt(0), dLdxAt, dIdxAt, maskAt),
          TRUE, "x:lt")

\* lines 225-232
PsiXLt ==
  /\ spc = "x:lt"
  /\ TryX(lt,
          LtScore(lt, dLdxAt, dIdxAt, maskAt),
          TRUE, "x:-lt")

\* lines 233-240
PsiXMinusLt ==
  /\ spc = "x:-lt"
  /\ TryX(QNeg(lt),
          MinusLtScore(QNeg(lt), dLdxAt, dIdxAt, maskAt),
          TRUE, "x:write")

\* line 241: Psi_x(x, y)[0] = ans_x, and the loop's x++
PsiXWrite ==
  /\ spc = "x:write"
  /\ Psi_x' = [Psi_x EXCEPT ![pixel + 1] = ans_x]
  /\ pixel' = pixel + 1
  /\ spc' = "x:pixel"
  /\ UNCHANGED <<dLdx, dLdy, dIdx, dIdy, smoothness_map, tmp, tmpscore, fscore,
                 fscore_valid, ans_x, ans_y, Psi_y>>

\* one candidate of the Psi_y scan, with value t, score s and test feasible:
\* tmp, tmpscore and the conditional fscore = tmpscore; ans_y = tmp;
\* fscore_valid = true
TryY(t, s, feasible, nxt) ==
  /\ tmp' = t
  /\ tmpscore' = s
  /\ IF Accepts(feasible, tmpscore')
       THEN fscore' = tmpscore' /\ ans_y' = tmp' /\ fscore_valid' = TRUE
       ELSE UNCHANGED <<fscore, ans_y, fscore_valid>>
  /\ spc' = nxt
  /\ UNCHANGED <<pixel, dLdx, dLdy, dIdx, dIdy, smoothness_map, ans_x,
                 Psi_x, Psi_y>>

\* the samples the Psi_y scan reads at the current pixel
dLdyAt == dLdy[pixel + 1]

dIdyAt == dIdy[pixel + 1]

\* lines 244-246: the loop test and fscore_valid = false
PsiYPixel ==
  /\ spc = "y:pixel"
  /\ IF pixel < Len(smoothness_map)
       THEN fscore_valid' = FALSE /\ spc' = "y:quadratic"
       ELSE fscore_valid' = fscore_valid /\ spc' = "done"
  /\ UNCHANGED <<pixel, dLdx, dLdy, dIdx, dIdy, smoothness_map, tmp, tmpscore,
                 fscore, ans_x, ans_y, Psi_x, Psi_y>>

\* lines 247-259
PsiYQuadratic ==
  /\ spc = "y:quadratic"
  /\ TryY(QuadraticTmp(dLdyAt, dIdyAt, maskAt),
          QuadraticScore(QuadraticTmp(dLdyAt, dIdyAt, maskAt), dLdyAt, dIdyAt, maskAt),
          QuadraticFeasible(QuadraticTmp(dLdyAt, dIdyAt, maskAt)), "y:positive")

\* lines 260-272
PsiYPositive ==
  /\ spc = "y:positive"
  /\ TryY(PositiveTmp(dLdyAt, dIdyAt, maskAt),
          PositiveScore(PositiveTmp(dLdyAt, dIdyAt, maskAt), dLdyAt, dIdyAt, maskAt),
          LinearFeasible(PositiveTmp(dLdyAt, dIdyAt, maskAt)), "y:negative")

\* lines 273-285
PsiYNegative ==
  /\ spc = "y:negative"
  /\ TryY(NegativeTmp(dLdyAt, dIdyAt, maskAt),
          NegativeScore(NegativeTmp(dLdyAt, dIdyAt, maskAt), dLdyAt, dIdyAt, maskAt),
          LinearFeasible(NegativeTmp(dLdyAt, dIdyAt, maskAt)), "y:zero")

\* lines 286-292
PsiYZero ==
  /\ spc = "y:zero"
  /\ TryY(QInt(0),
          ZeroScore(QInt(0), dLdyAt, dIdyAt, maskAt),
          TRUE, "y:lt")

\* lines 293-300
PsiYLt ==
  /\ spc = "y:lt"
  /\ TryY(lt,
          LtScore(lt, dLdyAt, dIdyAt, maskAt),
          TRUE, "y:-lt")

\* lines 301-308
PsiYMinusLt ==
  /\ spc = "y:-lt"
  /\ TryY(QNeg(lt),
          MinusLtScore(QNeg(lt), dLdyAt, dIdyAt, maskAt),
          TRUE, "y:write")

\* line 309: Psi_y(x, y)[0] = ans_y, and the loop's x++
PsiYWrite ==
  /\ spc = "y:write"
  /\ Psi_y' = [Psi_y EXCEPT ![pixel + 1] = ans_y]
  /\ pixel' = pixel + 1
  /\ spc' = "y:pixel"
  /\ UNCHANGED <<dLdx, dLdy, dIdx, dIdy, smoothness_map, tmp, tmpscore, fscore,
                 fscore_valid, ans_x, ans_y, Psi_x>>

IdlePsi ==
  /\ spc = "idle"
  /\ pixel = 0
  /\ dLdx = <<>>
  /\ dLdy = <<>>
  /\ dIdx = <<>>
  /\ dIdy = <<>>
  /\ smoothness_map = <<>>
  /\ tmp = QNone
  /\ tmpscore = QNone
  /\ fscore = QNone
  /\ fscore_valid = FALSE
  /\ ans_x = QNone
  /\ ans_y = QNone
  /\ Psi_x = <<>>
  /\ Psi_y = <<>>

(***************************************************************************)
(* applyShan2008, the L update of one round (lines 313-341), on a          *)
(* spectrum of a few frequency bins.  A complex sample is <<re, im>>:      *)
(* channel 0 and channel 1.                                                *)
(***************************************************************************)
VARIABLES
  lpc,                \* position in the L update
  bin,                \* the x of the loop of lines 328-338
  numerator_base,     \* sum of w_i F(K)^T |F(deriv_i)|^2 F(I)  (line 141)
  denominator_base,   \* sum of w_i |F(K)|^2 |F(deriv_i)|^2     (line 140)
  FDeriv1, FDeriv3,   \* FDeriv[1] and FDeriv[3] as line 134 leaves them
  FPsi_x, FPsi_y,     \* the transforms of Psi_x and Psi_y (lines 313-314)
  numerator,          \* lines 326-339
  denominator         \* lines 325-338

solveVars == <<lpc, bin, numerator_base, denominator_base, FDeriv1, FDeriv3,
               FPsi_x, FPsi_y, numerator, denominator>>

MaxBins == 2

Complex(re, im) == <<QInt(re), QInt(im)>>

\* ComplexConjugate::apply on one sample
ComplexConjugate(u) == <<u[1], QNeg(u[2])>>

\* ComplexMultiply::apply(a, b, false) on one sample
ComplexMultiply(u, v) ==
  <<QSub(QMul(u[1], v[1]), QMul(u[2], v[2])),
    QAdd(QMul(u[1], v[2]), QMul(u[2], v[1]))>>

\* ComplexDivide::apply(a, b, false) on one sample
ComplexDivide(u, v) ==
  LET n == ComplexMultiply(u, ComplexConjugate(v))
      d == QAdd(QMul(v[1], v[1]), QMul(v[2], v[2]))
  IN  <<QDiv(n[1], d), QDiv(n[2], d)>>

\* the transform of the dx (dy) stencil on a canvas 4 wide (high), at the four
\* frequencies: -1 + exp(-2 pi i u / 4)
DerivSpectrum == <<Complex(0, 0), Complex(-1, -1), Complex(-2, 0), Complex(-1, 1)>>

\* line 134: FDeriv[i] = F(deriv_i)^T
FDerivAt(u) == ComplexConjugate(DerivSpectrum[u + 1])

SolveBin(nb, db, u, v, fx, fy) ==
  [numerator_base |-> nb, denominator_base |-> db, FDeriv1 |-> FDerivAt(u),
   FDeriv3 |-> FDerivAt(v), FPsi_x |-> fx, FPsi_y |-> fy]

SolveBins ==
  { SolveBin(Complex(8, 0), Complex(50, 0), 0, 0, Complex(3, 0), Complex(-1, 0)),
    SolveBin(Complex(3, -2), Complex(75, 0), 1, 0, Complex(1, 0), Complex(2, -1)),
    SolveBin(Complex(0, 1), Complex(150, 0), 2, 3, Complex(1, 1), Complex(0, 2)),
    SolveBin(Complex(2, 2), Complex(60, 0), 3, 1, Complex(-1, 2), Complex(1, 0)),
    SolveBin(Complex(-4, 1), Complex(90, 0), 0, 2, Complex(0, -3), Complex(2, 2)) }

SolveRows == UNION { [1..n -> SolveBins] : n \in 1..MaxBins }

NoSpectrum == <<>>

\* the state at line 325 of round iterations
InitSolve ==
  /\ iterations \in 1..MAX_ITERATION
  /\ lambda_1 = Lambda1In(iterations)
  /\ lambda_2 = Lambda2In(iterations)
  /\ gamma = GammaIn(iterations)
  /\ \E row \in SolveRows :
       /\ numerator_base = [i \in DOMAIN row |-> row[i].numerator_base]
       /\ denominator_base = [i \in DOMAIN row |-> row[i].denominator_base]
       /\ FDeriv1 = [i \in DOMAIN row |-> row[i].FDeriv1]
       /\ FDeriv3 = [i \in DOMAIN row |-> row[i].FDeriv3]
       /\ FPsi_x = [i \in DOMAIN row |-> row[i].FPsi_x]
       /\ FPsi_y = [i \in DOMAIN row |-> row[i].FPsi_y]
  /\ numerator = NoSpectrum
  /\ denominator = NoSpectrum
  /\ bin = 0
  /\ lpc = "copy"

\* lines 325-326: denominator_base.copy() and numerator_base.copy()
SolveCopy ==
  /\ lpc = "copy"
  /\ denominator' = denominator_base
  /\ numerator' = numerator_base
  /\ bin' = 0
  /\ lpc' = "append"
  /\ UNCHANGED <<numerator_base, denominator_base, FDeriv1, FDeriv3, FPsi_x,
                 FPsi_y>>

\* FDeriv[i](x, y)[0] * FDeriv[i](x, y)[0] + FDeriv[i](x, y)[1] * FDeriv[i](x, y)[1]
SquaredModulus(u) == QAdd(QMul(u[1], u[1]), QMul(u[2], u[2]))

\* FDeriv[i](x, y)[0] * FPsi(x, y)[0] - FDeriv[i](x, y)[1] * FPsi(x, y)[1]
RealOfProduct(u, v) == QSub(QMul(u[1], v[1]), QMul(u[2], v[2]))

\* lines 328-338: the loop test and, at one bin, the four += on channel 0
SolveAppend ==
  /\ lpc = "append"
  /\ IF bin < Len(numerator)
       THEN LET i == bin + 1
                d0 == QAdd(QAdd(denominator[i][1],
                                QMul(gamma, SquaredModulus(FDeriv1[i]))),
                           QMul(gamma, SquaredModulus(FDeriv3[i])))
                n0 == QAdd(QAdd(numerator[i][1],
                                QMul(gamma, RealOfProduct(FDeriv1[i], FPsi_x[i]))),
                           QMul(gamma, RealOfProduct(FDeriv3[i], FPsi_y[i])))
            IN  /\ denominator' = [denominator EXCEPT ![i][1] = d0]
                /\ numerator' = [numerator EXCEPT ![i][1] = n0]
                /\ bin' = bin + 1
                /\ lpc' = "append"
       ELSE /\ lpc' = "divide"
            /\ UNCHANGED <<numerator, denominator, bin>>
  /\ UNCHANGED <<numerator_base, denominator_base, FDeriv1, FDeriv3, FPsi_x,
                 FPsi_y>>

\* line 339: ComplexDivide::apply(numerator, denominator, false)
SolveDivide ==
  /\ lpc = "divide"
  /\ numerator' = [i \in DOMAIN numerator |->
                     ComplexDivide(numerator[i], denominator[i])]
  /\ lpc' = "done"
  /\ UNCHANGED <<bin, numerator_base, denominator_base, FDeriv1, FDeriv3,
                 FPsi_x, FPsi_y, denominator>>

IdleSolve ==
  /\ lpc = "idle"
  /\ bin = 0
  /\ numerator_base = NoSpectrum
  /\ denominator_base = NoSpectrum
  /\ FDeriv1 = NoSpectrum
  /\ FDeriv3 = NoSpectrum
  /\ FPsi_x = NoSpectrum
  /\ FPsi_y = NoSpectrum
  /\ numerator = NoSpectrum
  /\ denominator = NoSpectrum

vars == <<mainVars, padVars, psiVars, solveVars>>

InitPadding == InitPad /\ IdleMain /\ IdlePsi /\ IdleSolve

NextPadding ==
  \/ PadBegin /\ UNCHANGED <<mainVars, psiVars, solveVars>>
  \/ PadFrame /\ UNCHANGED <<mainVars, psiVars, solveVars>>
  \/ PadTop /\ UNCHANGED <<mainVars, psiVars, solveVars>>
  \/ PadBottom /\ UNCHANGED <<mainVars, psiVars, solveVars>>
  \/ PadCrop /\ UNCHANGED <<mainVars, psiVars, solveVars>>

\* applyPadding on its own, on every input image of the model
SpecPadding == InitPadding /\ [][NextPadding]_vars


Init == InitMain /\ IdlePad /\ IdlePsi /\ IdleSolve

Next ==
  \/ parse /\ UNCHANGED <<operandVars, padVars, psiVars, solveVars>>
  \/ push /\ UNCHANGED <<operandVars, padVars, psiVars, solveVars>>
  \/ ChoAssert /\ UNCHANGED <<operandVars, padVars, psiVars, solveVars>>
  \/ ChoPad /\ UNCHANGED <<operandVars, padVars, psiVars, solveVars>>
  \/ ChoSave /\ UNCHANGED <<operandVars, padVars, psiVars, solveVars>>
  \/ ChoSolve /\ UNCHANGED <<operandVars, padVars, psiVars, solveVars>>
  \/ ChoCrop /\ UNCHANGED <<operandVars, padVars, psiVars, solveVars>>
  \/ ShanAssert /\ UNCHANGED <<operandVars, padVars, psiVars, solveVars>>
  \/ ShanPad /\ UNCHANGED <<padVars, psiVars, solveVars>>
  \/ ShanSmoothness /\ UNCHANGED <<padVars, psiVars, solveVars>>
  \/ ShanFourier /\ UNCHANGED <<padVars, psiVars, solveVars>>
  \/ ShanInit /\ UNCHANGED <<padVars, psiVars, solveVars>>
  \/ ShanLoop /\ UNCHANGED <<operandVars, padVars, psiVars, solveVars>>
  \/ ShanPsi /\ UNCHANGED <<padVars, psiVars, solveVars>>
  \/ ShanPsiY /\ UNCHANGED <<padVars, psiVars, solveVars>>
  \/ ShanL /\ UNCHANGED <<padVars, psiVars, solveVars>>
  \/ ShanSave /\ UNCHANGED <<operandVars, padVars, psiVars, solveVars>>
  \/ ShanSchedule /\ UNCHANGED <<operandVars, padVars, psiVars, solveVars>>
  \/ ShanCrop /\ UNCHANGED <<operandVars, padVars, psiVars, solveVars>>

Spec == Init /\ [][Next]_vars

InitPsiUpdate == InitPsi /\ IdleSolver /\ IdlePad /\ IdleSolve

NextPsiUpdate ==
  \/ PsiXPixel /\ UNCHANGED <<mainVars, padVars, solveVars>>
  \/ PsiXQuadratic /\ UNCHANGED <<mainVars, padVars, solveVars>>
  \/ PsiXPositive /\ UNCHANGED <<mainVars, padVars, solveVars>>
  \/ PsiXNegative /\ UNCHANGED <<mainVars, padVars, solveVars>>
  \/ PsiXZero /\ UNCHANGED <<mainVars, padVars, solveVars>>
  \/ PsiXLt /\ UNCHANGED <<mainVars, padVars, solveVars>>
  \/ PsiXMinusLt /\ UNCHANGED <<mainVars, padVars, solveVars>>
  \/ PsiXWrite /\ UNCHANGED <<mainVars, padVars, solveVars>>
  \/ PsiYPixel /\ UNCHANGED <<mainVars, padVars, solveVars>>
  \/ PsiYQuadratic /\ UNCHANGED <<mainVars, padVars, solveVars>>
  \/ PsiYPositive /\ UNCHANGED <<mainVars, padVars, solveVars>>
  \/ PsiYNegative /\ UNCHANGED <<mainVars, padVars, solveVars>>
  \/ PsiYZero /\ UNCHANGED <<mainVars, padVars, solveVars>>
  \/ PsiYLt /\ UNCHANGED <<mainVars, padVars, solveVars>>
  \/ PsiYMinusLt /\ UNCHANGED <<mainVars, padVars, solveVars>>
  \/ PsiYWrite /\ UNCHANGED <<mainVars, padVars, solveVars>>

\* the Psi update of one round on its own, on every row of the model
SpecPsi == InitPsiUpdate /\ [][NextPsiUpdate]_vars

InitLUpdate == InitSolve /\ IdleSolver /\ IdlePad /\ IdlePsi

NextLUpdate ==
  \/ SolveCopy /\ UNCHANGED <<mainVars, padVars, psiVars>>
  \/ SolveAppend /\ UNCHANGED <<mainVars, padVars, psiVars>>
  \/ SolveDivide /\ UNCHANGED <<mainVars, padVars, psiVars>>

\* the L update of one round on its own, on every spectrum of the model
SpecSolve == InitLUpdate /\ [][NextLUpdate]_vars



(***************************************************************************)
(* Claims about the dispatcher and the solvers' control flow.              *)
(***************************************************************************)
\* C1: parse with exactly one argument takes the top of the stack as the
\* kernel and the image below it as the blurred source, runs applyCho2009 iff
\* the argument is "cho" and applyShan2008 iff it is "shan", and on success
\* pushes exactly one image on top of the unchanged stack; with any other
\* argument, or another number of arguments, it ends in a fatal error with no
\* solver run and nothing pushed.
C1_Dispatch ==
  /\ pc # "parse" =>
       /\ (args = <<"cho">>) <=> (calls = <<"applyCho2009">>)
       /\ (args = <<"shan">>) <=> (calls = <<"applyShan2008">>)
       /\ (args \notin {<<"cho">>, <<"shan">>}) =>
            /\ calls = <<>>
            /\ pc = "fatal"
            /\ err = "usage"
            /\ work = <<>>
  /\ calls # <<>> => K = stack0[1] /\ B = stack0[2]
  /\ pc = "done" =>
       /\ Len(stack) = Len(stack0) + 1
       /\ stack[1] = result
       /\ Tail(stack) = stack0
  /\ pc # "done" => stack = stack0

C1_Witness ==
  /\ pc = "done"
  /\ args = <<"cho">>
  /\ calls = <<"applyCho2009">>
  /\ Len(stack) = 4
  /\ stack[2].id = "kernel"
  /\ stack[3].id = "blurred"

\* C2: for both solvers, a kernel of even width or height, a kernel with more
\* than one channel or frame, or a blurred image with more than one frame is
\* rejected with a fatal precondition error before any numeric work: nothing
\* is padded or transformed and no checkpoint file is written.
C2_RejectedBeforeWork ==
  (/\ calls # <<>>
   /\ \/ K.width % 2 = 0
      \/ K.height % 2 = 0
      \/ K.channels > 1
      \/ K.frames > 1
      \/ B.frames > 1)
  => /\ pc \in {"cho:assert", "shan:assert", "fatal"}
     /\ pc = "fatal" => err = "precondition"
     /\ work = <<>>
     /\ files = <<>>
     /\ canvas = NoImage

C2_Witness ==
  /\ pc = "fatal"
  /\ err = "precondition"
  /\ calls = <<"applyShan2008">>
  /\ K.width % 2 = 1
  /\ K.height % 2 = 0
  /\ K.channels = 1
  /\ K.frames = 1
  /\ B.frames = 1

\* C6: for every valid input, the image applyCho2009 returns has the width,
\* height and channels of the blurred image and one frame, and the window of
\* the crop that produces it lies inside the padded canvas.
C6_ChoShape ==
  (calls = <<"applyCho2009">> /\ pc \in {"push", "done"})
  => /\ result = Shape(B.width, B.height, 1, B.channels)
     /\ crop.width = B.width
     /\ crop.height = B.height
     /\ crop.x >= 0
     /\ crop.y >= 0
     /\ crop.x + crop.width <= canvas.width
     /\ crop.y + crop.height <= canvas.height

C6_Witness ==
  /\ calls = <<"applyCho2009">>
  /\ pc = "done"
  /\ B.width = 6
  /\ B.height = 5
  /\ B.channels = 3
  /\ result = Shape(6, 5, 1, 3)
  /\ canvas = Shape(9, 8, 1, 3)

RECURSIVE QPow(_, _)
QPow(q, n) == IF n = 0 THEN QInt(1) ELSE QMul(q, QPow(q, n - 1))

QNear(q, p, scale) ==
  LET diff == QAbs(QSub(q, QFrac(p, scale)))
  IN  QLess(diff, QFrac(1, 2 * scale))

InRound == pc \in {"shan:psi", "shan:psi_y", "shan:L", "shan:save", "shan:schedule"}

C8_RoundValues ==
  /\ InRound =>
       /\ iterations \in 1..2
       /\ QEq(lambda_1, QDiv(QFrac(1, 10), QPow(QFrac(12, 10), iterations - 1)))
       /\ QEq(lambda_2, QDiv(QInt(15), QPow(QFrac(15, 10), iterations - 1)))
       /\ QEq(gamma, QMul(QInt(2), QPow(QInt(2), iterations - 1)))
  /\ (pc \in {"shan:loop", "shan:crop", "push", "done"} /\ iterations = 2) =>
       /\ QNear(lambda_1, 833, 10000)
       /\ QEq(lambda_2, QInt(10))
       /\ QEq(gamma, QInt(4))
  /\ (pc \in {"shan:loop", "shan:crop", "push", "done"} /\ iterations = 3) =>
       /\ QNear(lambda_1, 694, 10000)
       /\ QNear(lambda_2, 667, 100)
       /\ QEq(gamma, QInt(8))

C8_Step ==
  /\ pc = "shan:schedule" =>
       /\ QLess(lambda_1', lambda_1)
       /\ QLess(lambda_2', lambda_2)
       /\ QLess(gamma, gamma')
  /\ (lambda_1' # lambda_1 \/ lambda_2' # lambda_2) =>
       pc \in {"shan:fourier", "shan:schedule"}
  /\ gamma' # gamma => pc \in {"shan:init", "shan:schedule"}

\* C8: round n of applyShan2008 (n = 1, 2) uses lambda_1 = 0.1 / 1.2^(n-1),
\* lambda_2 = 15 / 1.5^(n-1) and gamma = 2 * 2^(n-1); the update at the end of
\* a round strictly decreases lambda_1 and lambda_2 and strictly increases
\* gamma; after the updates lambda_1 is 0.0833 then 0.0694, lambda_2 is 10.0
\* then 6.67, gamma is 4 then 8 (to the digits given); and apart from their
\* initialisation no other statement changes the three.
C8_Schedule == [](C8_RoundValues) /\ [][C8_Step]_vars

C8_Witness ==
  /\ pc = "shan:crop"
  /\ iterations = 3
  /\ QNear(lambda_1, 694, 10000)
  /\ QEq(gamma, QInt(8))


(***************************************************************************)
(* Claims about applyPadding.                                              *)
(***************************************************************************)
\* sample (x, y, t)[c] of an image, for indices inside it
At(im, x, y, t, c) == im.data[Addr(im, x, y, t, c) + 1]

InputPixels ==
  {<<x, y, t, c>> : x \in 0..(pin.width - 1), y \in 0..(pin.height - 1),
                    t \in 0..(pin.frames - 1), c \in 0..(pin.channels - 1)}

\* C3: cropping the image applyPadding returns at the offset the solvers use,
\* ((canvasWidth - W) / 2, (canvasHeight - H) / 2), with extent W x H, gives
\* back the input image, sample by sample.
C3_RoundTrip ==
  ppc = "done" =>
    \A p \in InputPixels :
      QEq(At(pout, SolverPadding(pout.width, pin.width) + p[1],
                   SolverPadding(pout.height, pin.height) + p[2], p[3], p[4]),
          At(pin, p[1], p[2], p[3], p[4]))

Interior(xy) ==
  /\ xy[1] >= x_padding /\ xy[1] < x_padding + pin.width
  /\ xy[2] >= y_padding /\ xy[2] < y_padding + pin.height

\* C4: applyPadding writes border samples only: no write of its copy,
\* interpolation or blur steps is to a sample (x, y) with
\* x_padding <= x < x_padding + W and y_padding <= y < y_padding + H, so up to
\* the final crop ret(x_padding + x, y_padding + y) equals B(x, y).
C4_InteriorUntouched ==
  ppc \in {"frame", "top", "bottom", "crop", "done", "crashed"} =>
    /\ \A xy \in pwrites : ~Interior(xy)
    /\ \A p \in InputPixels :
         QEq(At(ret, x_padding + p[1], y_padding + p[2], p[3], p[4]),
             At(pin, p[1], p[2], p[3], p[4]))

C4_Witness ==
  /\ ppc = "crop"
  /\ pin.width = 4
  /\ pin.height = 3
  /\ pin.frames = 2
  /\ pin.channels = 2
  /\ alpha = 1
  /\ <<x_padding, y_padding - 1>> \in pwrites
  /\ <<x_padding - 1, y_padding>> \in pwrites
  /\ <<x_padding + pin.width, y_padding>> \in pwrites
  /\ <<x_padding, y_padding + pin.height>> \in pwrites

InCanvas(xy) ==
  /\ xy[1] >= 0 /\ xy[1] < pin.width + 2 * x_padding
  /\ xy[2] >= 0 /\ xy[2] < pin.height + 2 * y_padding

\* C5: when alpha is 0 (width or height below 3) applyPadding does not crash:
\* every sample of the canvas it reads or writes has its row index in
\* [0, H + 2 * y_padding) and its column index in [0, W + 2 * x_padding).
C5_DegenerateInRange ==
  (ppc # "idle" /\ alpha = 0) =>
    /\ ppc # "crashed"
    /\ \A xy \in preads \cup pwrites : InCanvas(xy)


(***************************************************************************)
(* Claims about the Psi update.                                            *)
(***************************************************************************)
XScan == {"x:pixel", "x:quadratic", "x:positive", "x:negative", "x:zero",
          "x:lt", "x:-lt", "x:write"}

YScan == {"y:pixel", "y:quadratic", "y:positive", "y:negative", "y:zero",
          "y:lt", "y:-lt", "y:write"}

\* the number of pixels of Psi_x (Psi_y) written so far in this round
WrittenX ==
  IF spc \in XScan THEN pixel ELSE IF spc = "idle" THEN 0 ELSE Len(Psi_x)

WrittenY ==
  IF spc \in YScan THEN pixel ELSE IF spc = "done" THEN Len(Psi_y) ELSE 0

Flat(dL, dI, m) ==
  /\ QEq(dL, QInt(0))
  /\ QEq(dI, QInt(0))
  /\ QEq(m, QInt(0))

\* the candidates other than zero that pass their test score above 0
OthersPositive(dL, dI, m) ==
  \A c \in {1, 2, 3, 5, 6} :
    LET t == CandTmp(c, dL, dI, m)
    IN  CandFeasible(c, t) => QLess(QInt(0), CandScore(c, t, dL, dI, m))

\* C7: at a pixel where dLdx = 0, dIdx = 0 and smoothness_map = 0 the scan
\* writes Psi_x = 0, every other candidate scoring above 0, with the round's
\* lambda_1, lambda_2 and gamma and the constants k, a, b and lt; likewise
\* for Psi_y with dLdy and dIdy.
C7_ZeroSelected ==
  /\ \A i \in 1..WrittenX :
       Flat(dLdx[i], dIdx[i], smoothness_map[i]) =>
         /\ QEq(Psi_x[i], QInt(0))
         /\ OthersPositive(dLdx[i], dIdx[i], smoothness_map[i])
  /\ \A i \in 1..WrittenY :
       Flat(dLdy[i], dIdy[i], smoothness_map[i]) =>
         /\ QEq(Psi_y[i], QInt(0))
         /\ OthersPositive(dLdy[i], dIdy[i], smoothness_map[i])

\* v is the value of a candidate that passes its test, whose score no
\* candidate that passes its test is below, and which is the first such
\* candidate in the order of the scan
IsChoice(v, dL, dI, m) ==
  LET ts == [c \in 1..6 |-> CandTmp(c, dL, dI, m)]
      sc == [c \in 1..6 |-> CandScore(c, ts[c], dL, dI, m)]
      ok == {c \in 1..6 : CandFeasible(c, ts[c])}
  IN  \E c \in ok :
        /\ QEq(v, ts[c])
        /\ \A j \in ok : QLeq(sc[c], sc[j])
        /\ \A j \in ok : j < c => QLess(sc[c], sc[j])

\* C9: the value the scan writes to Psi_x (Psi_y) at a pixel is one of the six
\* candidates; that candidate passes its test, no candidate that passes its
\* test has a lower score, and among those of equal score it is the first in
\* the order of the scan; a candidate has been accepted at this pixel when the
\* value is written.
C9_PsiChoice ==
  /\ spc \in {"x:write", "y:write"} => fscore_valid
  /\ (spc = "x:pixel" /\ pixel > 0) =>
       IsChoice(Psi_x[pixel], dLdx[pixel], dIdx[pixel], smoothness_map[pixel])
  /\ (spc = "y:pixel" /\ pixel > 0) =>
       IsChoice(Psi_y[pixel], dLdy[pixel], dIdy[pixel], smoothness_map[pixel])

C9_Witness ==
  /\ spc = "y:pixel"
  /\ pixel = 2
  /\ iterations = 1
  /\ LinearFeasible(PositiveTmp(dLdx[1], dIdx[1], smoothness_map[1]))
  /\ QEq(Psi_x[1], QuadraticTmp(dLdx[1], dIdx[1], smoothness_map[1]))
  /\ ~QuadraticFeasible(QuadraticTmp(dLdx[2], dIdx[2], smoothness_map[2]))
  /\ QEq(Psi_x[2], QNeg(lt))
  /\ QEq(Psi_y[2], QuadraticTmp(dLdy[2], dIdy[2], smoothness_map[2]))
  /\ ~QEq(Psi_y[2], ans_x)


(***************************************************************************)
(* Claims about the L update.                                              *)
(***************************************************************************)
ComplexEq(u, v) == QEq(u[1], v[1]) /\ QEq(u[2], v[2])

ComplexAdd(u, v) == <<QAdd(u[1], v[1]), QAdd(u[2], v[2])>>

ComplexScale(g, u) == <<QMul(g, u[1]), QMul(g, u[2])>>

\* F(deriv_x) and F(deriv_y) at bin i: FDeriv[1] and FDeriv[3] hold their
\* conjugates
Fdx(i) == ComplexConjugate(FDeriv1[i])

Fdy(i) == ComplexConjugate(FDeriv3[i])

\* numerator_base + gamma (F(dx)^T F(Psi_x) + F(dy)^T F(Psi_y)) at bin i
ExpectedN(i) ==
  ComplexAdd(numerator_base[i],
             ComplexScale(gamma,
               ComplexAdd(ComplexMultiply(ComplexConjugate(Fdx(i)), FPsi_x[i]),
                          ComplexMultiply(ComplexConjugate(Fdy(i)), FPsi_y[i]))))

\* denominator_base + gamma (|F(dx)|^2 + |F(dy)|^2) at bin i, the sum added to
\* the real component only
ExpectedD(i) ==
  <<QAdd(denominator_base[i][1],
         QMul(gamma, QAdd(SquaredModulus(Fdx(i)), SquaredModulus(Fdy(i))))),
    denominator_base[i][2]>>

C10_AtDivision ==
  lpc = "divide" =>
    \A i \in DOMAIN numerator :
      /\ ComplexEq(numerator[i], ExpectedN(i))
      /\ ComplexEq(denominator[i], ExpectedD(i))

C10_BasesKept ==
  /\ numerator_base' = numerator_base
  /\ denominator_base' = denominator_base

\* C10: at every frequency bin the numerator handed to the complex division
\* is numerator_base + gamma (conj(F(dx)) F(Psi_x) + conj(F(dy)) F(Psi_y)) in
\* its real and in its imaginary component, the denominator is
\* denominator_base + gamma (|F(dx)|^2 + |F(dy)|^2) with the imaginary
\* component of denominator_base, and no step of a round changes
\* numerator_base or denominator_base.
C10_LUpdate == [](C10_AtDivision) /\ [][C10_BasesKept]_vars


(***************************************************************************)
(* Claims about the operands of the convolutions of applyShan2008.         *)
(***************************************************************************)
\* the convolutions that produce the result named r
Producing(r) ==
  { n \in 1..Len(convolutions) : convolutions[n].result = r }

\* the filter is the stencil of FDeriv[i] itself, in the spatial domain
SpatialStencil(filter, i) ==
  /\ filter.source.of = StencilName[i + 1]
  /\ filter.source.domain = "spatial"
  /\ ~filter.source.conjugate

\* the image is the padded blurred image, before RealComplex and the transform
SpatialBlurred(im) ==
  /\ im.of = "B"
  /\ im.domain = "spatial"

\* C11: whenever applyShan2008 has computed dIdx and dIdy, the image operand
\* of their wrap convolutions was the padded blurred image in the spatial
\* domain (not its Fourier transform), and the filter operand was the spatial
\* dx (dy) stencil with the coefficients -1 and 1 (not its transform, not the
\* conjugate of its transform); and the filter of every dLdx and dLdy, in
\* every round, was that same spatial stencil.
C11_SpatialOperands ==
  /\ \A n \in Producing("dIdx") \cup Producing("dIdy") :
       SpatialBlurred(convolutions[n].image)
  /\ \A n \in Producing("dIdx") \cup Producing("dLdx") :
       /\ SpatialStencil(convolutions[n].filter, 1)
       /\ Stencil(1) = {<<0, 0, -1>>, <<1, 0, 1>>}
  /\ \A n \in Producing("dIdy") \cup Producing("dLdy") :
       /\ SpatialStencil(convolutions[n].filter, 3)
       /\ Stencil(3) = {<<0, 0, -1>>, <<0, 1, 1>>}

\* the Psi update is reading dLdx and dLdy, which have the shape of L
ReadingL == pc \in {"shan:psi", "shan:psi_y"}

\* C13: in every round of applyShan2008, round 1 included, while the Psi update
\* reads L (through dLdx and dLdy, indexed at every pixel of the canvas), L is
\* a defined image of the canvas's width and height; in rounds after the first
\* it is the output of the previous round's L update; and every dLdx and dLdy
\* was convolved from an L that held samples.
C13_LDefined ==
  /\ ReadingL =>
       /\ L # NoImage
       /\ L.width = canvas.width
       /\ L.height = canvas.height
       /\ iterations > 1 => written.L = iterations - 1
  /\ \A n \in Producing("dLdx") \cup Producing("dLdy") :
       convolutions[n].image.domain = "spatial"


(***************************************************************************)
(* Claims about the rounds of applyShan2008 and the checkpoint files.      *)
(***************************************************************************)
InShan == calls = <<"applyShan2008">>

InCho == calls = <<"applyCho2009">>

\* the numeric steps before the loop, and those of one round
Prologue == <<"applyPadding", "smoothness_map", "FFT">>

RoundSteps == <<"Psi_x", "Psi_y", "L">>

\* the numeric steps of n whole rounds
Rounds(n) == [i \in 1..(3 * n) |-> RoundSteps[((i - 1) % 3) + 1]]

\* the checkpoint files of n whole rounds
Outputs(n) == [i \in 1..n |-> OutputName(i)]

\* the log of the numeric steps and of the files when round r has done the
\* first s of its steps and (saved) its checkpoint write
Progress(r, s, saved) ==
  /\ work = Prologue \o Rounds(r - 1) \o SubSeq(RoundSteps, 1, s)
  /\ files = Outputs(IF saved THEN r ELSE r - 1)

C12_State ==
  /\ InShan =>
       /\ iterations \in 0..(MAX_ITERATION + 1)
       /\ \A n \in 1..Len(files) : files[n] # "padded.tmp"
       /\ pc = "shan:loop" => Progress(iterations, 0, FALSE)
       /\ pc = "shan:psi" => Progress(iterations, 0, FALSE) /\ iterations <= MAX_ITERATION
       /\ pc = "shan:psi_y" => Progress(iterations, 1, FALSE)
       /\ pc = "shan:L" => Progress(iterations, 2, FALSE)
       /\ pc = "shan:save" => Progress(iterations, 3, FALSE)
       /\ pc = "shan:schedule" => Progress(iterations, 3, TRUE)
       \* once in the loop the call stops nowhere but after round 2
       /\ iterations >= 1 =>
            pc \in {"shan:loop", "shan:psi", "shan:psi_y", "shan:L", "shan:save",
                    "shan:schedule", "shan:crop", "push", "done"}
       /\ pc \in {"shan:crop", "push", "done"} =>
            /\ iterations = MAX_ITERATION + 1
            /\ work = Prologue \o Rounds(2)
            /\ files = <<"output01.tmp", "output02.tmp">>
       \* the Psi update reads the L of the round before, and while it runs
       \* neither L nor a Psi it has yet to write is of this round
       /\ \A n \in Producing("dLdx") \cup Producing("dLdy") :
            convolutions[n].image.round = convolutions[n].round - 1
       /\ pc = "shan:psi" =>
            /\ written.L = iterations - 1
            /\ written.Psi_x = iterations - 1
            /\ written.Psi_y = iterations - 1
       /\ pc = "shan:psi_y" =>
            /\ written.L = iterations - 1
            /\ written.Psi_y = iterations - 1
  /\ InCho =>
       /\ files = IF pc \in {"cho:assert", "cho:pad", "cho:save", "fatal"}
                  THEN <<>> ELSE <<"padded.tmp">>
       /\ iterations = 0
  /\ calls = <<>> => files = <<>>

C12_Step ==
  /\ (InShan /\ files' # files) =>
       /\ files' = Append(files, OutputName(iterations))
       /\ written.L = iterations
       /\ iterations' = iterations
  /\ (InShan /\ iterations >= 1 /\ iterations' # iterations) =>
       /\ iterations' = iterations + 1
       /\ Len(files) = iterations
       /\ lambda_1' # lambda_1
  \* L is written by the L update of a round, and after the last round by
  \* the final crop
  /\ L' # L =>
       \/ pc = "shan:L" /\ written'.L = iterations
       \/ pc = "shan:crop" /\ iterations = MAX_ITERATION + 1

\* C12: applyShan2008 runs exactly 2 rounds, whatever the data, and then
\* returns; in each round the steps are, in this order, the Psi_x update, the
\* Psi_y update, the L update, the checkpoint write and the schedule update;
\* the Psi update of round n reads only the L of round n - 1 and nothing
\* written in round n; the checkpoint files of a call that returns are
\* output01.tmp then output02.tmp; and padded.tmp is written exactly once,
\* by applyCho2009 only.
C12_Rounds == [](C12_State) /\ [][C12_Step]_vars


====
